---- MODULE Spec2Model ----
(***************************************************************************)
(* rearview: backtest of a fixed-withdrawal strategy over a price series.  *)
(* Model of src/main.go: findClosestDay, checkInPeriod, checkStrategy.     *)
(*                                                                         *)
(* Dates are calendar days written yyyymmdd as one integer, which orders   *)
(* them as time.Time orders midnights in UTC.  Prices are whole numbers    *)
(* and the inflation rate is a fraction <<num, den>> with den a power of   *)
(* two, so every float64 value the program computes from them is exact,    *)
(* and is kept here as a numerator over the denominator den^n.             *)
(***************************************************************************)
EXTENDS Integers, Sequences, FiniteSets

(* ------------------------------ bounds --------------------------------- *)
MaxLen == 4
MaxRun == 2
MaxCost == 3
AnyLen == 3
LocLen == 5
MonoLen == 5

(* ------------------------- outcome constants --------------------------- *)
success == 0
failed == 1
na == 2

(* ------------------------------ dates ---------------------------------- *)
YearOf(d) == d \div 10000
MonthOf(d) == (d \div 100) % 100
DayOf(d) == d % 100
MkDate(y, m, d) == y * 10000 + m * 100 + d

IsLeap(y) == y % 4 = 0 /\ (y % 100 # 0 \/ y % 400 = 0)

\* time.Time.AddDate(years, 0, 0): same month and day in the later year,
\* normalised as time.Date does: February 29 of a common year is March 1.
AddDate(d, years) ==
    LET y == YearOf(d) + years
    IN  IF MonthOf(d) = 2 /\ DayOf(d) = 29 /\ ~IsLeap(y)
        THEN MkDate(y, 3, 1)
        ELSE MkDate(y, MonthOf(d), DayOf(d))

(* --------------------------- Day Locator ------------------------------- *)
\* 0-based element of a slice
At(s, k) == s[k + 1]

\* variant: the day itself is not accepted
OnlyAfter(d, day) == d > day

\* the predicate handed to sort.Search
OnOrAfter(d, day) == d > day \/ d = day

\* sort.Search(n, f): binary search for the smallest index in [0, n) at
\* which f is true, n if there is none
RECURSIVE Search(_, _, _, _)
Search(lo, hi, day, s) ==
    IF lo < hi
    THEN LET h == (lo + hi) \div 2
         IN  IF ~OnOrAfter(At(s, h).Date, day)
             THEN Search(h + 1, hi, day, s)
             ELSE Search(lo, h, day, s)
    ELSE lo

\* variant: the last sample is never returned
findClosestDayShort(day, inDatePrices) ==
    LET index == Search(0, Len(inDatePrices), day, inDatePrices)
    IN  IF index >= Len(inDatePrices) - 1
        THEN <<-1, FALSE>>
        ELSE <<index, TRUE>>

findClosestDay(day, inDatePrices) ==
    LET index == Search(0, Len(inDatePrices), day, inDatePrices)
    IN  IF index = Len(inDatePrices)
        THEN <<-1, FALSE>>
        ELSE <<index, TRUE>>

(* ------------------------- money arithmetic ---------------------------- *)
RECURSIVE Pow(_, _)
Pow(b, n) == IF n = 0 THEN 1 ELSE b * Pow(b, n - 1)

\* variant: the exponent of the run before
ExponentLate(cfg, rn) == rn * cfg.yearPerRun

\* float64((run+1)*config.yearPerRun)
Exponent(cfg, rn) == (rn + 1) * cfg.yearPerRun

\* math.Pow(config.inflationRate, n) = InflNum / InflDen
InflNum(cfg, rn) == Pow(cfg.inflationRate[1], Exponent(cfg, rn))
InflDen(cfg, rn) == Pow(cfg.inflationRate[2], Exponent(cfg, rn))

\* numerators over InflDen(cfg, rn)
inflationCapital(cfg, rn) == cfg.capital * InflNum(cfg, rn)

\* variant: the cost of living spread over the runs
costOfLivingPerRun(cfg, rn) ==
    (cfg.costPerYear * cfg.yearPerRun * InflNum(cfg, rn)) \div cfg.run

costOfLiving(cfg, rn) == cfg.costPerYear * cfg.yearPerRun * InflNum(cfg, rn)

\* variant: the cost of living left out of the target
targetCapitalNoCost(cfg, rn) == inflationCapital(cfg, rn)

\* variant: the cost of living subtracted
targetCapitalLessCost(cfg, rn) ==
    inflationCapital(cfg, rn) - costOfLiving(cfg, rn)

targetCapital(cfg, rn) == inflationCapital(cfg, rn) + costOfLiving(cfg, rn)

\* int64(float64(config.capital) / datePrices[0].HighPrice)
initialShares(cfg, price) == cfg.capital \div price

\* variant: > in place of >=
MeetsStrictly(cfg, rn, held, price) ==
    held * price * InflDen(cfg, rn) > targetCapital(cfg, rn)

\* float64(heldShares)*datePrice.HighPrice >= targetCapital
Meets(cfg, rn, held, price) ==
    held * price * InflDen(cfg, rn) >= targetCapital(cfg, rn)

\* int64(costOfLiving / datePrice.HighPrice)
soldShares(cfg, rn, price) ==
    costOfLiving(cfg, rn) \div (InflDen(cfg, rn) * price)

\* startDay, endDay = endDay, endDay.AddDate(config.yearPerRun, 0, 0)
\* variant: startDay is not moved
AdvanceStuck(sd, ed, years) == <<sd, AddDate(ed, years)>>

AdvancePeriod(sd, ed, years) == <<ed, AddDate(ed, years)>>

(* ------------------------------ state ---------------------------------- *)
VARIABLES
    datePrices,     \* the parsed series handed to checkStrategy
    config,         \* the config built in main
    pc,             \* position in checkStrategy / checkInPeriod
    i,              \* checkStrategy: loop index
    successCount, failedCount, naCount,
    r,              \* checkStrategy: result of the last checkInPeriod
    heldShares, startDay, endDay, run,
    startIndex, endIndex, sFound, eFound,
    currIndex, satisfied,
    trace,          \* history: one record per run scanned in this call
    outcomes,       \* history: the results of the calls so far
    pass, prevConfig, prevOutcomes,   \* a finished backtest kept for comparison
    target, locIndex, locFound        \* a single findClosestDay call

vars == <<datePrices, config, pc, i, successCount, failedCount, naCount, r,
          heldShares, startDay, endDay, run, startIndex, endIndex, sFound,
          eFound, currIndex, satisfied, trace, outcomes, pass, prevConfig,
          prevOutcomes, target, locIndex, locFound>>

simVars == <<heldShares, startDay, endDay, run, startIndex, endIndex,
             sFound, eFound, currIndex, satisfied, trace>>
countVars == <<successCount, failedCount, naCount>>
fixedVars == <<datePrices, config, pass, prevConfig, prevOutcomes>>
locVars == <<target, locIndex, locFound>>

\* the slice datePrices[i:] that checkStrategy passes to checkInPeriod
periodPrices == SubSeq(datePrices, i + 1, Len(datePrices))

(* ------------------------------ inputs --------------------------------- *)
\* the days a sample may carry: new year's days and a leap day
DatePool == {20000101, 20000229, 20010101, 20020101}

NewYears == {20000101, 20010101, 20020101}

Prices == {1, 2}
MonoPrices == {1, 2, 3}

Samples(dates, prices) == [Date : dates, HighPrice : prices]

\* the rows of a file of n rows, in file order: parseCSVFile appends each
\* row as it is read and neither sorts nor checks the dates
Series(dates, prices, n) == [1 .. n -> Samples(dates, prices)]

\* ascending date order, equal dates allowed
IsAscending(s) == \A k \in 1 .. (Len(s) - 1) : s[k].Date <= s[k + 1].Date

\* the files whose rows are in ascending date order
Ascending(dates, prices, n) == {s \in Series(dates, prices, n) : IsAscending(s)}

\* the parsed files: every file of up to AnyLen rows, whatever the order of
\* its rows, and the longer files of up to MaxLen rows that are in
\* ascending date order
InputSeries ==
    UNION {Series(DatePool, Prices, n) : n \in 1 .. AnyLen}
        \cup UNION {Ascending(DatePool, Prices, n) : n \in 1 .. MaxLen}

\* the files the comparisons run on: every file of up to AnyLen rows and
\* the longer ascending ones of up to MonoLen rows
MonoSeries ==
    UNION {Series(NewYears, Prices, n) : n \in 1 .. AnyLen}
        \cup UNION {Ascending(NewYears, MonoPrices, n) : n \in 1 .. MonoLen}

LocateSeries == UNION {Series(DatePool, {1}, n) : n \in 1 .. LocLen}

Rates == {<<1, 1>>, <<3, 2>>}
Capitals == {4}

\* the flags of main: plans of up to MaxRun years in all
Configs ==
    {c \in [capital : Capitals, run : 1 .. MaxRun, yearPerRun : {1, 2},
            inflationRate : Rates, costPerYear : 0 .. MaxCost] :
        c.run * c.yearPerRun <= MaxRun}

MonoConfigs ==
    [capital : {4}, run : {1, 2}, yearPerRun : {1},
     inflationRate : {<<1, 1>>}, costPerYear : {0, 2, 4}]

Idle ==
    /\ i = 0
    /\ successCount = 0 /\ failedCount = 0 /\ naCount = 0
    /\ r = success
    /\ heldShares = 0 /\ startDay = 0 /\ endDay = 0 /\ run = 0
    /\ startIndex = 0 /\ endIndex = 0 /\ sFound = FALSE /\ eFound = FALSE
    /\ currIndex = 0 /\ satisfied = FALSE
    /\ trace = <<>> /\ outcomes = <<>>
    /\ pass = 1 /\ prevConfig = config /\ prevOutcomes = <<>>

\* main: a parsed, non-empty series, in the order of the file's rows, and a
\* config, about to call checkStrategy
Init ==
    /\ datePrices \in InputSeries
    /\ config \in Configs
    /\ pc = "loop"
    /\ target = 0 /\ locIndex = -1 /\ locFound = FALSE
    /\ Idle

(* --------------------------- checkInPeriod ----------------------------- *)
\* checkStrategy calls checkInPeriod(config, datePrices[i:], logger)
CallCheckInPeriod ==
    /\ pc = "loop"
    /\ i < Len(datePrices)
    /\ heldShares' = initialShares(config, At(periodPrices, 0).HighPrice)
    /\ startDay' = At(periodPrices, 0).Date
    /\ endDay' = At(periodPrices, 0).Date
    /\ run' = 0
    /\ trace' = <<>>
    /\ pc' = "run"
    /\ UNCHANGED <<startIndex, endIndex, sFound, eFound, currIndex, satisfied>>
    /\ UNCHANGED <<i, r, outcomes>>
    /\ UNCHANGED <<countVars, fixedVars, locVars>>

\* top of one iteration of the run loop: the period's days, the two lookups,
\* the not-applicable return
BeginRun ==
    /\ pc = "run"
    /\ run < config.run
    /\ LET days == AdvancePeriod(startDay, endDay, config.yearPerRun)
           s == findClosestDay(days[1], periodPrices)
           e == findClosestDay(days[2], periodPrices)
       IN  /\ startDay' = days[1]
           /\ endDay' = days[2]
           /\ startIndex' = s[1] /\ sFound' = s[2]
           /\ endIndex' = e[1] /\ eFound' = e[2]
           /\ IF ~s[2] \/ ~e[2]
              THEN /\ r' = na
                   /\ pc' = "returned"
                   /\ UNCHANGED <<currIndex, satisfied, trace>>
              ELSE /\ satisfied' = FALSE
                   /\ currIndex' = s[1]
                   /\ trace' = Append(trace,
                          [run |-> run, startIndex |-> s[1], endIndex |-> e[1],
                           held |-> heldShares,
                           target |-> targetCapital(config, run),
                           den |-> InflDen(config, run),
                           examined |-> <<>>, hit |-> -1, sold |-> 0])
                   /\ pc' = "scan"
                   /\ UNCHANGED r
    /\ UNCHANGED <<heldShares, run, i, outcomes>>
    /\ UNCHANGED <<countVars, fixedVars, locVars>>

\* one iteration of the scan loop: the day at currIndex is examined
ScanStep ==
    /\ pc = "scan"
    /\ currIndex < endIndex
    /\ LET datePrice == At(periodPrices, currIndex)
           last == trace[Len(trace)]
       IN  IF Meets(config, run, heldShares, datePrice.HighPrice)
           THEN LET sold == soldShares(config, run, datePrice.HighPrice)
                IN  /\ satisfied' = TRUE
                    /\ heldShares' = heldShares - sold
                    /\ trace' = [trace EXCEPT ![Len(trace)] =
                           [last EXCEPT
                              !.examined = Append(last.examined, currIndex),
                              !.hit = currIndex, !.sold = sold]]
                    /\ run' = run + 1
                    /\ pc' = "run"
                    /\ UNCHANGED currIndex
           ELSE /\ currIndex' = currIndex + 1
                /\ trace' = [trace EXCEPT ![Len(trace)] =
                       [last EXCEPT
                          !.examined = Append(last.examined, currIndex)]]
                /\ UNCHANGED <<satisfied, heldShares, run, pc>>
    /\ UNCHANGED <<startDay, endDay, startIndex, endIndex, sFound, eFound>>
    /\ UNCHANGED <<i, r, outcomes>>
    /\ UNCHANGED <<countVars, fixedVars, locVars>>

\* the scan loop ran off the window with satisfied still false
ReturnFailed ==
    /\ pc = "scan"
    /\ currIndex >= endIndex
    /\ ~satisfied
    /\ r' = failed
    /\ pc' = "returned"
    /\ UNCHANGED <<simVars, i, outcomes>>
    /\ UNCHANGED <<countVars, fixedVars, locVars>>

\* the run loop ended: every run was satisfied
ReturnSuccess ==
    /\ pc = "run"
    /\ run >= config.run
    /\ r' = success
    /\ pc' = "returned"
    /\ UNCHANGED <<simVars, i, outcomes>>
    /\ UNCHANGED <<countVars, fixedVars, locVars>>

(* --------------------------- checkStrategy ----------------------------- *)
\* variant: a failed result is not counted
TallyDropsFailed(res, counts) ==
    IF res = success THEN <<counts[1] + 1, counts[2], counts[3]>>
    ELSE IF res = na THEN <<counts[1], counts[2], counts[3] + 1>>
    ELSE counts

\* switch r: the counter of the result goes up by one
Tally(res, counts) ==
    IF res = success THEN <<counts[1] + 1, counts[2], counts[3]>>
    ELSE IF res = failed THEN <<counts[1], counts[2] + 1, counts[3]>>
    ELSE IF res = na THEN <<counts[1], counts[2], counts[3] + 1>>
    ELSE counts

Classify ==
    /\ pc = "returned"
    /\ LET c == Tally(r, <<successCount, failedCount, naCount>>)
       IN  /\ successCount' = c[1]
           /\ failedCount' = c[2]
           /\ naCount' = c[3]
    /\ outcomes' = Append(outcomes, r)
    /\ i' = i + 1
    /\ pc' = "loop"
    /\ UNCHANGED <<simVars, r, fixedVars, locVars>>

\* the range loop is over: the totals are printed
Report ==
    /\ pc = "loop"
    /\ i >= Len(datePrices)
    /\ pc' = "done"
    /\ UNCHANGED <<simVars, i, r, outcomes>>
    /\ UNCHANGED <<countVars, fixedVars, locVars>>

Next ==
    \/ CallCheckInPeriod
    \/ BeginRun
    \/ ScanStep
    \/ ReturnFailed
    \/ ReturnSuccess
    \/ Classify
    \/ Report

Spec == Init /\ [][Next]_vars


(* ------------------- one call of the Day Locator ----------------------- *)
LocateTargets == DatePool \cup {19990101, 20010301, 20030101}

InitLocate ==
    /\ datePrices \in LocateSeries
    /\ config = [capital |-> 2, run |-> 1, yearPerRun |-> 1,
                 inflationRate |-> <<1, 1>>, costPerYear |-> 0]
    /\ pc = "locate"
    /\ target \in LocateTargets
    /\ locIndex = -1 /\ locFound = FALSE
    /\ Idle

Locate ==
    /\ pc = "locate"
    /\ LET res == findClosestDay(target, datePrices)
       IN  /\ locIndex' = res[1]
           /\ locFound' = res[2]
    /\ pc' = "located"
    /\ UNCHANGED <<simVars, i, r, outcomes, target>>
    /\ UNCHANGED <<countVars, fixedVars>>

NextLocate == Locate

SpecLocate == InitLocate /\ [][NextLocate]_vars

(* ------------- the same series under a harder config ------------------- *)
InitMono ==
    /\ datePrices \in MonoSeries
    /\ config \in MonoConfigs
    /\ pc = "loop"
    /\ target = 0 /\ locIndex = -1 /\ locFound = FALSE
    /\ Idle

\* checkStrategy is called again on the series with the changed config
Again(cfg) ==
    /\ pc = "done"
    /\ pass = 1
    /\ prevConfig' = config
    /\ prevOutcomes' = outcomes
    /\ config' = cfg
    /\ pass' = 2
    /\ i' = 0
    /\ successCount' = 0 /\ failedCount' = 0 /\ naCount' = 0
    /\ outcomes' = <<>>
    /\ pc' = "loop"
    /\ UNCHANGED <<simVars, r, datePrices, locVars>>

RerunCost == Again([config EXCEPT !.costPerYear = config.costPerYear + 1])

RerunRuns == Again([config EXCEPT !.run = config.run + 1])

NextMono ==
    \/ Next
    \/ RerunCost
    \/ RerunRuns

SpecMono == InitMono /\ [][NextMono]_vars

(* ------------------------ the worked scenario -------------------------- *)
ScenarioSeries ==
    << [Date |-> 20000101, HighPrice |-> 100],
       [Date |-> 20010101, HighPrice |-> 200],
       [Date |-> 20100101, HighPrice |-> 1000] >>

ScenarioConfig ==
    [capital |-> 100, run |-> 1, yearPerRun |-> 1,
     inflationRate |-> <<1, 1>>, costPerYear |-> 0]

ScenarioConfigs ==
    [capital : {100}, run : 1 .. MaxRun, yearPerRun : {1, 9, 20},
     inflationRate : Rates, costPerYear : 0 .. MaxCost]

InitScenario ==
    /\ datePrices = ScenarioSeries
    /\ config \in ScenarioConfigs
    /\ pc = "loop"
    /\ target = 0 /\ locIndex = -1 /\ locFound = FALSE
    /\ Idle

SpecScenario == InitScenario /\ [][Next]_vars

(* ============================ properties =============================== *)
LastDate == datePrices[Len(datePrices)].Date
PriceAt(k) == At(periodPrices, k).HighPrice
Sum == successCount + failedCount + naCount

\* inside a call of checkInPeriod, or just returned from it
InCall == pc \in {"run", "scan", "returned"}

\* q is a/b rounded down
IsFloor(q, a, b) == q * b <= a /\ a < (q + 1) * b

\* rate^((rn+1)*yearPerRun) as a fraction
RateNum(rn) == Pow(config.inflationRate[1], (rn + 1) * config.yearPerRun)
RateDen(rn) == Pow(config.inflationRate[2], (rn + 1) * config.yearPerRun)

\* held shares at price p are worth at least the target of run rn:
\* capital * rate^n + costPerYear * yearPerRun * rate^n
Crosses(held, p, rn) ==
    held * p * RateDen(rn) >=
        (config.capital + config.costPerYear * config.yearPerRun) * RateNum(rn)

\* C1: on an ascending series, a target on or before the last sample's date
\* is located at the smallest index whose date is on or after it (index 0
\* for a target before the first sample, the lowest index among equal
\* dates); a target after the last sample's date is reported not found.
C1_LocateLeast ==
    (pc = "located" /\ IsAscending(datePrices)) =>
        IF target <= LastDate
        THEN /\ locFound
             /\ locIndex \in 0 .. (Len(datePrices) - 1)
             /\ At(datePrices, locIndex).Date >= target
             /\ \A j \in 0 .. (locIndex - 1) : At(datePrices, j).Date < target
        ELSE ~locFound

\* a target equal to a date that occurs twice, not at the front
C1_Witness ==
    /\ pc = "located"
    /\ IsAscending(datePrices)
    /\ locFound
    /\ locIndex >= 1
    /\ locIndex + 1 < Len(datePrices)
    /\ At(datePrices, locIndex).Date = target
    /\ At(datePrices, locIndex + 1).Date = target

\* steps one simulation can still take: the runs left, each at most a
\* lookup and a scan of the whole slice
Rank ==
    LET n == Len(periodPrices) + 2
    IN  IF pc = "run" THEN (config.run - run) * n + (n - 1)
        ELSE IF pc = "scan"
        THEN (config.run - run) * n + (endIndex - currIndex)
        ELSE 0

\* one step of a simulation, for C2
C2_Step ==
    /\ pc \in {"run", "scan"} =>
          /\ Rank > 0
          /\ Rank' >= 0
          /\ Rank' < Rank
          /\ pc' \in {"run", "scan", "returned"}
    /\ pc' = "returned" =>
          /\ r' \in {success, failed, na}
          /\ r' = na => (startDay' > LastDate \/ endDay' > LastDate)

\* C2: a simulation terminates (while it runs a next step exists and every
\* step lowers Rank, which stays positive until the return), it returns
\* one of success, failed and not-applicable, and not-applicable only when
\* the period start or the period end of the run it reached is later than
\* the last sample's date.
C2_Outcome ==
    /\ [](pc \in {"run", "scan"} =>
            ENABLED (BeginRun \/ ScanStep \/ ReturnFailed \/ ReturnSuccess))
    /\ [][C2_Step]_vars

\* a not-applicable return in the second run
C2_Witness ==
    /\ pc = "returned"
    /\ r = na
    /\ run = 1
    /\ endDay > LastDate

\* one step of the backtest, for C5
C5_Step ==
    /\ successCount' >= successCount
    /\ failedCount' >= failedCount
    /\ naCount' >= naCount
    /\ pc = "returned" =>
          /\ Sum' = Sum + 1
          /\ i' = i + 1
          /\ (r = success) = (successCount' = successCount + 1)
          /\ (r = failed) = (failedCount' = failedCount + 1)
          /\ (r = na) = (naCount' = naCount + 1)
    /\ pc # "returned" => (Sum' = Sum /\ i' = i)
    /\ (pc = "loop" /\ i < Len(datePrices)) => pc' = "run"
    /\ pc' = "loop" => Sum' = i'
    /\ pc' = "done" => Sum' = Len(datePrices)

\* C5: each simulation's outcome raises exactly one counter by one, nothing
\* else changes a counter, a simulation is started for every index whatever
\* the earlier outcomes were, and the counters add up to the length of the
\* series when the backtest is done.
C5_Totals == [][C5_Step]_vars

\* a finished backtest of three samples whose first simulation failed
C5_Witness ==
    /\ pc = "done"
    /\ Len(datePrices) = 3
    /\ outcomes[1] = failed
    /\ outcomes[2] # failed
    /\ Sum = 3

\* one step of a simulation, for C6
C6_Step ==
    IF pc = "loop" /\ pc' = "run"
    THEN IsFloor(heldShares', config.capital, PriceAt(0))
    ELSE IF pc = "scan" /\ satisfied'
    THEN IsFloor(heldShares - heldShares',
                 config.costPerYear * config.yearPerRun * RateNum(run),
                 PriceAt(currIndex) * RateDen(run))
    ELSE heldShares' = heldShares

\* C6: heldShares is set to floor(capital / price[start]) when a simulation
\* starts, a liquidation at price p lowers it by exactly
\* floor(costPerYear * yearPerRun * rate^((run+1)*yearPerRun) / p),
\* and nothing else changes it.
C6_Shares == [][C6_Step]_vars

\* a liquidation that sold shares at a price that does not divide the cost
C6_Witness ==
    /\ pc = "run"
    /\ trace # <<>>
    /\ LET last == trace[Len(trace)]
       IN  /\ last.sold >= 1
           /\ last.sold * PriceAt(last.hit) * last.den
                 < costOfLiving(config, last.run)

\* C8: heldShares is never negative.
C8_NonNegative == heldShares >= 0

\* two liquidations in one simulation, each selling shares
C8_Witness ==
    /\ Len(trace) = 2
    /\ trace[1].sold >= 1
    /\ trace[2].sold >= 1

\* the indexes lo, lo+1, ..., hi in order
RECURSIVE Range(_, _)
Range(lo, hi) == IF lo > hi THEN <<>> ELSE <<lo>> \o Range(lo + 1, hi)

NoCrossing(rec) ==
    \A j \in rec.startIndex .. (rec.endIndex - 1) :
        ~Crosses(rec.held, PriceAt(j), rec.run)

\* C9: in each run the liquidation is at the lowest index of the window
\* [startIndex, endIndex) whose value meets the target, the samples before
\* it and no sample after it are examined, a run has at most one
\* liquidation, the simulation fails exactly when the window of the run it
\* reached holds no such index (an empty window included), and a success
\* has one liquidation per run, at strictly increasing indexes.
C9_FirstCrossing ==
    InCall =>
    /\ \A k \in 1 .. Len(trace) :
          LET rec == trace[k]
          IN  /\ rec.run = k - 1
              /\ IF rec.hit # -1
                 THEN /\ rec.hit \in rec.startIndex .. (rec.endIndex - 1)
                      /\ Crosses(rec.held, PriceAt(rec.hit), rec.run)
                      /\ \A j \in rec.startIndex .. (rec.hit - 1) :
                            ~Crosses(rec.held, PriceAt(j), rec.run)
                      /\ rec.examined = Range(rec.startIndex, rec.hit)
                 ELSE /\ k = Len(trace)
                      /\ rec.sold = 0
                      /\ pc \in {"scan", "returned"}
                      /\ \A j \in 1 .. Len(rec.examined) :
                            /\ rec.examined[j] = rec.startIndex + j - 1
                            /\ rec.examined[j] < rec.endIndex
                            /\ ~Crosses(rec.held, PriceAt(rec.examined[j]),
                                        rec.run)
              /\ k < Len(trace) => trace[k + 1].held = rec.held - rec.sold
              /\ k = Len(trace) => heldShares = rec.held - rec.sold
    /\ pc = "returned" =>
          /\ r = failed <=>
                (trace # <<>> /\ trace[Len(trace)].hit = -1)
          /\ r = failed => NoCrossing(trace[Len(trace)])
          /\ r = success =>
                /\ Len(trace) = config.run
                /\ \A k \in 1 .. (Len(trace) - 1) :
                      trace[k].hit < trace[k + 1].hit

\* a success of two runs whose first liquidation came after a sample that
\* did not meet the target
C9_Witness ==
    /\ pc = "returned"
    /\ r = success
    /\ Len(trace) = 2
    /\ trace[1].hit > trace[1].startIndex
    /\ trace[1].sold >= 1

\* the samples of a run's window [startIndex, endIndex)
Window(rec) == rec.startIndex .. (rec.endIndex - 1)

\* the lookup of the period's start succeeded, and the first window starts
\* at index 0 of the slice
StartLocated ==
    /\ (pc = "scan" \/ (pc = "returned" /\ r = na)) => sFound
    /\ trace # <<>> => trace[1].startIndex = 0

\* a not-applicable return has a failed lookup of the period's end
EndDecides == (pc = "returned" /\ r = na) => ~eFound

\* no window ends before it starts
Ordered == \A k \in 1 .. Len(trace) : trace[k].startIndex <= trace[k].endIndex

\* each later window starts where the one before it ended, the windows of
\* two runs share no sample, and no sample is examined in two runs
Chained ==
    \A k \in 2 .. Len(trace) :
        /\ trace[k].startIndex = trace[k - 1].endIndex
        /\ \A m \in 1 .. (k - 1) :
              /\ Window(trace[m]) \cap Window(trace[k]) = {}
              /\ \A j \in 1 .. Len(trace[k].examined) :
                    \A n \in 1 .. Len(trace[m].examined) :
                        trace[m].examined[n] # trace[k].examined[j]

\* C10 as stated: in every simulation the lookup of a period's start never
\* fails, the first window starts at index 0 of the slice and each later
\* window starts where the one before it ended, so not-applicable comes
\* from the period-end lookup alone, the windows of successive runs are
\* disjoint and no sample is examined in two runs.
C10_AsStated == InCall => (StartLocated /\ EndDecides /\ Chained)

\* C10 as amended: in every simulation, whatever the order of the rows,
\* each later window starts where the one before it ended, no window ends
\* before it starts, the windows of successive runs are disjoint, no sample
\* is examined in two runs, and a not-applicable return has a failed
\* lookup of the period's end; when the slice the simulation is given is
\* in ascending date order, moreover, the lookup of a period's start never
\* fails and the first window starts at index 0.
C10_Contiguous ==
    InCall =>
        /\ Chained
        /\ Ordered
        /\ EndDecides
        /\ IsAscending(periodPrices) => StartLocated

\* on an ascending slice, the second run scans its window, which starts
\* where the first ended
C10_Witness ==
    /\ pc = "scan"
    /\ IsAscending(periodPrices)
    /\ Len(trace) = 2
    /\ trace[1].startIndex = 0
    /\ trace[2].startIndex >= 1
    /\ trace[2].startIndex < trace[2].endIndex
    /\ trace[2].examined # <<>>

\* the scenario's simulation, from index 0, has returned
ScenarioReturned ==
    /\ datePrices = ScenarioSeries
    /\ config = ScenarioConfig
    /\ i = 0
    /\ pc = "returned"

\* held shares 1, period end 2001-01-01 located at index 1, target 100
ScenarioFigures ==
    /\ Len(trace) = 1
    /\ trace[1].held = 1
    /\ endDay = 20010101
    /\ trace[1].startIndex = 0
    /\ trace[1].endIndex = 1
    /\ trace[1].target = 100 * trace[1].den

\* C7 as stated: the scenario is satisfied at index 1 (1*200 >= 100) and
\* returns success.
C7_AsStated ==
    ScenarioReturned =>
        /\ ScenarioFigures
        /\ trace[1].hit = 1
        /\ r = success

\* C7 as amended: in the scenario heldShares is 1, the period end
\* 2001-01-01 is located at index 1, the target is 100, and the run is
\* satisfied at index 0 (1*100 >= 100), the only index of the window [0, 1);
\* index 1 is not examined; nothing is sold; the outcome is success.
C7_Scenario ==
    ScenarioReturned =>
        /\ ScenarioFigures
        /\ trace[1].hit = 0
        /\ trace[1].examined = <<0>>
        /\ trace[1].sold = 0
        /\ heldShares = 1
        /\ r = success

C7_Witness == ScenarioReturned /\ r = success

(* --------------------- comparing two backtests ------------------------- *)
Count(seq, v) == Cardinality({k \in DOMAIN seq : seq[k] = v})

\* the second backtest of the series is done; the first used prevConfig
Compared == pc = "done" /\ pass = 2

CostRaised ==
    /\ Compared
    /\ prevConfig.costPerYear < config.costPerYear
    /\ prevConfig.run = config.run

RunsRaised ==
    /\ Compared
    /\ prevConfig.run < config.run
    /\ prevConfig.costPerYear = config.costPerYear

\* no index turned into a success, and the rate s/(s+f) did not go up
\* where both rates are defined
NoNewSuccess ==
    /\ Len(outcomes) = Len(prevOutcomes)
    /\ \A k \in DOMAIN outcomes :
          outcomes[k] = success => prevOutcomes[k] = success
    /\ LET s1 == Count(prevOutcomes, success)
           f1 == Count(prevOutcomes, failed)
           s2 == Count(outcomes, success)
           f2 == Count(outcomes, failed)
       IN  (s1 + f1 > 0 /\ s2 + f2 > 0) => s2 * (s1 + f1) <= s1 * (s2 + f2)

\* C3 as stated: raising costPerYear, all else fixed, turns no starting
\* index into a success and does not raise the success rate.
C3_AsStated == CostRaised => NoNewSuccess

\* C3 as amended: with numRuns = 1, raising costPerYear, all else fixed,
\* turns no starting index into a success, leaves the not-applicable indexes
\* as they were, and does not raise the success rate.
C3_CostOneRun ==
    (CostRaised /\ config.run = 1) =>
        /\ NoNewSuccess
        /\ \A k \in DOMAIN outcomes :
              (outcomes[k] = na) = (prevOutcomes[k] = na)

\* one run, a higher cost, and an index that was a success and now fails
C3_Witness ==
    /\ CostRaised
    /\ config.run = 1
    /\ \E k \in DOMAIN outcomes :
          prevOutcomes[k] = success /\ outcomes[k] = failed

\* C4: with one more run, all else fixed, a failed index stays failed, a
\* not-applicable index stays not-applicable, every success was a success
\* before, and the success rate does not go up.
C4_MoreRuns ==
    RunsRaised =>
        /\ NoNewSuccess
        /\ \A k \in DOMAIN outcomes :
              /\ prevOutcomes[k] = failed => outcomes[k] = failed
              /\ prevOutcomes[k] = na => outcomes[k] = na

\* one more run turned a success into a failure at one index and into a
\* not-applicable at another
C4_Witness ==
    /\ RunsRaised
    /\ \E k \in DOMAIN outcomes :
          prevOutcomes[k] = success /\ outcomes[k] = failed
    /\ \E k \in DOMAIN outcomes :
          prevOutcomes[k] = success /\ outcomes[k] = na

====
